---- MODULE Spec2Model ----
(***************************************************************************)
(* Wishlists REST service: the Wishlist table and its persistence methods  *)
(* (service/models.py), the flask-restx resources of service/routes.py,    *)
(* and the process-wide SQLAlchemy session they share.                     *)
(*                                                                         *)
(* Python None / SQL NULL is the string NULL for text columns, 0 for ids   *)
(* and an absent key for attributes that were never assigned.  An optional *)
(* result (query.get, .first(), a response body) is a set with at most one *)
(* element.                                                                *)
(***************************************************************************)
EXTENDS Integers, Sequences, FiniteSets, TLC

\* ------------------------------------------------------------------ bounds
MaxWishlists == 2
MaxItems == 2
MaxTime == 2
MaxInflight == 2

\* ------------------------------------------------------- input alphabets
NULL == "NULL"
Names == {"n1", "n2"}
Users == {"u1", "u2"}
Descs == {"d1"}
ProductNames == {"p1", "42"}
JSON == "application/json"
ContentTypes == {JSON, "application/json; charset=utf-8", "test/html", NULL}
\* A JSON body that is a list, not an object: subscripting it by a key raises TypeError.
NotMapping == [list_body |-> TRUE]

WishlistIds == 1..MaxWishlists
ItemIds == 1..MaxItems
PathWishlistIds == 1..MaxWishlists
PathItemIds == 1..MaxItems
\* Every id a path can name, 0 standing for an id that is never assigned.
AnyWishlistId == 0..MaxWishlists
AnyItemId == 0..MaxItems

\* HTTP status codes
HTTP_200_OK == 200
HTTP_201_CREATED == 201
HTTP_204_NO_CONTENT == 204
HTTP_400_BAD_REQUEST == 400
HTTP_404_NOT_FOUND == 404
HTTP_409_CONFLICT == 409
HTTP_415_UNSUPPORTED_MEDIA_TYPE == 415
HTTP_500_INTERNAL_SERVER_ERROR == 500

VARIABLES
    wishlists,   \* committed rows of the wishlist table: id -> row
    items,       \* committed rows of the wishlist item table: id -> row
    dirty,       \* session identity map: item id -> attribute values not yet committed
    next_wid,    \* the wishlist primary-key sequence
    next_iid,    \* the item primary-key sequence
    now,         \* the database clock (db.func.now())
    inflight,    \* POST /wishlists requests past their conflict check, in order of the check
    direct       \* TRUE once Wishlist.create/update/delete was called outside a handler

vars == <<wishlists, items, dirty, next_wid, next_iid, now, inflight, direct>>

\* ---------------------------------------------------------------- helpers
IsMapping(data) == "list_body" \notin DOMAIN data

HasKey(data, k) == IsMapping(data) /\ k \in DOMAIN data

Attr(rec, k, default) == IF k \in DOMAIN rec THEN rec[k] ELSE default

SetAttr(rec, k, v) == [a \in DOMAIN rec \cup {k} |-> IF a = k THEN v ELSE rec[a]]

EmptyMap == [k \in {} |-> NULL]

\* Request bodies for a wishlist: complete, partial and not a mapping.
FullWishlistBodies ==
    { [name |-> n, username |-> u, description |-> d, is_public |-> p] :
        n \in Names, u \in Users, d \in Descs, p \in BOOLEAN }

\* Bodies whose name is JSON null.
NullNameBodies == { [name |-> NULL, username |-> u] : u \in Users }

WishlistBodies ==
    FullWishlistBodies
    \cup NullNameBodies
    \cup { [name |-> n] : n \in Names }
    \cup { [username |-> u] : u \in Users }
    \cup { EmptyMap, NotMapping }

\* ------------------------------------------------- outcome of one request
\* What a handler returns and the storage it leaves behind.
Outcome(status, body, msg, loc, wl, its, drt, nw, ni) ==
    [status |-> status, body |-> body, msg |-> msg, loc |-> loc,
     wl |-> wl, its |-> its, drt |-> drt, nw |-> nw, ni |-> ni]

\* A response that leaves the storage and the session as they are.
Respond(status, body, msg) ==
    Outcome(status, body, msg, {}, wishlists, items, dirty, next_wid, next_iid)

\* abort(): api.abort raises the HTTP error with the message; nothing is written.
abort(error_code, message) == Respond(error_code, {}, message)

\* An exception no handler of the resource catches.
\* DataValidationError is mapped to 400 by the service's error handlers,
\* any other exception surfaces as 500.
DataValidationErrorResponse(message) == Respond(HTTP_400_BAD_REQUEST, {}, message)

UnhandledException(message) == Respond(HTTP_500_INTERNAL_SERVER_ERROR, {}, message)

\* --------------------------------------------------- service/models.py
\* Wishlist(): an object on which no attribute has been assigned.
NewWishlist == EmptyMap

\* name and username are nullable=False.
NotNullViolation(rec) ==
    \/ Attr(rec, "name", NULL) = NULL
    \/ Attr(rec, "username", NULL) = NULL

\* The row the INSERT writes: the primary key from the sequence, is_public
\* default False, created_at / last_updated_at server_default now().
InsertRow(rec, id) ==
    [id |-> id,
     name |-> Attr(rec, "name", NULL),
     username |-> Attr(rec, "username", NULL),
     description |-> Attr(rec, "description", NULL),
     is_public |-> Attr(rec, "is_public", FALSE),
     created_at |-> Attr(rec, "created_at", now),
     last_updated_at |-> Attr(rec, "last_updated_at", now)]

\* db.session.commit() flushes every pending attribute change of the session.
FlushedItems(its, drt) ==
    [i \in DOMAIN its |-> IF i \in DOMAIN drt THEN drt[i] ELSE its[i]]

\* A wishlist_id column without the foreign key.
ForeignKeyUnchecked(its, wl) == FALSE

\* wishlist_id is a required foreign key to Wishlist: the database refuses a
\* flush that leaves an item whose wishlist_id is not the id of a wishlist.
ForeignKeyViolation(its, wl) ==
    \E i \in DOMAIN its : its[i].wishlist_id \notin DOMAIN wl

\* db.session.rollback(): the rows stay as committed and every pending
\* attribute change of the session is discarded.
rollback == [wl |-> wishlists, its |-> items, drt |-> EmptyMap]

\* The rows Wishlist.create leaves when its commit succeeds.
Inserted(rec) ==
    [i \in DOMAIN wishlists \cup {next_wid} |->
        IF i = next_wid THEN InsertRow(rec, next_wid) ELSE wishlists[i]]

\* Wishlist.create with name and username nullable.
create_nullable(rec) ==
    IF ForeignKeyViolation(FlushedItems(items, dirty), Inserted(rec))
    THEN [ok |-> FALSE, id |-> 0, wl |-> rollback.wl, its |-> rollback.its,
          drt |-> rollback.drt, nw |-> next_wid + 1]
    ELSE [ok |-> TRUE, id |-> next_wid, wl |-> Inserted(rec),
          its |-> FlushedItems(items, dirty),
          drt |-> EmptyMap, nw |-> next_wid + 1]

\* Wishlist.create: self.id = None, add, commit; on an exception rollback and
\* raise DataValidationError.  The INSERT takes its id from the sequence
\* before the database refuses it, so a failed create uses the id up.
create(rec) ==
    IF \/ NotNullViolation(rec)
       \/ ForeignKeyViolation(FlushedItems(items, dirty), Inserted(rec))
    THEN [ok |-> FALSE, id |-> 0, wl |-> rollback.wl, its |-> rollback.its,
          drt |-> rollback.drt, nw |-> next_wid + 1]
    ELSE [ok |-> TRUE, id |-> next_wid, wl |-> Inserted(rec),
          its |-> FlushedItems(items, dirty),
          drt |-> EmptyMap, nw |-> next_wid + 1]

\* Wishlist.update whose except branch does not roll the session back.
update_without_rollback(row) ==
    IF \/ NotNullViolation(row)
       \/ ForeignKeyViolation(FlushedItems(items, dirty), wishlists)
    THEN [ok |-> FALSE, wl |-> wishlists, its |-> items, drt |-> dirty]
    ELSE [ok |-> TRUE,
          wl |-> [wishlists EXCEPT ![row.id] = row],
          its |-> FlushedItems(items, dirty),
          drt |-> EmptyMap]

\* Wishlist.update: commit the attribute values of the loaded object with
\* everything else the session holds; on an exception (a NOT NULL column set
\* to None, a pending wishlist_id the foreign key refuses) rollback and raise
\* DataValidationError.
update(row) ==
    IF \/ NotNullViolation(row)
       \/ ForeignKeyViolation(FlushedItems(items, dirty), wishlists)
    THEN [ok |-> FALSE, wl |-> rollback.wl, its |-> rollback.its, drt |-> rollback.drt]
    ELSE [ok |-> TRUE,
          wl |-> [wishlists EXCEPT ![row.id] = row],
          its |-> FlushedItems(items, dirty),
          drt |-> EmptyMap]

\* Wishlist.create when db.session.commit() itself is made to raise, before any
\* INSERT is sent: rollback, DataValidationError, no id taken.
create_commit_raises(rec) ==
    [ok |-> FALSE, id |-> 0, wl |-> rollback.wl, its |-> rollback.its,
     drt |-> rollback.drt, nw |-> next_wid]

\* Wishlist.update when db.session.commit() raises: rollback, DataValidationError.
update_commit_raises(row) ==
    [ok |-> FALSE, wl |-> rollback.wl, its |-> rollback.its, drt |-> rollback.drt]

\* Wishlist.delete when db.session.commit() raises: rollback, DataValidationError.
delete_commit_raises(row) ==
    [ok |-> FALSE, wl |-> rollback.wl, its |-> rollback.its, drt |-> rollback.drt]

\* Wishlist.serialize
serialize(row) ==
    [id |-> row.id, name |-> row.name, description |-> row.description,
     username |-> row.username, created_at |-> row.created_at,
     last_updated_at |-> row.last_updated_at, is_public |-> row.is_public]

\* Wishlist.deserialize that also takes created_at from the data.
deserialize_with_created_at(self, data) ==
    IF ~IsMapping(data)
    THEN [ok |-> FALSE, rec |-> self,
          err |-> <<"Invalid wishlist: body of request contained bad or no data">>]
    ELSE IF ~HasKey(data, "name")
    THEN [ok |-> FALSE, rec |-> self, err |-> <<"Invalid wishlist: missing ", "name">>]
    ELSE [ok |-> TRUE,
          rec |-> IF HasKey(data, "created_at")
                  THEN SetAttr(SetAttr(self, "name", data.name), "created_at", data.created_at)
                  ELSE SetAttr(self, "name", data.name),
          err |-> <<>>]

\* Wishlist.deserialize: self.name = data["name"]; KeyError and TypeError
\* become DataValidationError.
deserialize(self, data) ==
    IF ~IsMapping(data)
    THEN [ok |-> FALSE, rec |-> self,
          err |-> <<"Invalid wishlist: body of request contained bad or no data">>]
    ELSE IF ~HasKey(data, "name")
    THEN [ok |-> FALSE, rec |-> self, err |-> <<"Invalid wishlist: missing ", "name">>]
    ELSE [ok |-> TRUE, rec |-> SetAttr(self, "name", data.name), err |-> <<>>]

\* Wishlist.find: query.get(by_id)
find(by_id) == IF by_id \in DOMAIN wishlists THEN {wishlists[by_id]} ELSE {}

\* Wishlist.all
all == {wishlists[i] : i \in DOMAIN wishlists}

\* Wishlist.find_by_name
find_by_name(name) == {w \in all : w.name = name}

\* Wishlist.find_for_user
find_for_user(username) == {w \in all : w.username = username}

\* Wishlist.query.filter_by(username=..., name=...)
filter_by(username, name) == {w \in all : w.username = username /\ w.name = name}

\* Rows of f other than those with a key in S.
Without(f, S) == [i \in DOMAIN f \ S |-> f[i]]

\* The one-to-many relationship Wishlist.wishlist_items: the items whose
\* foreign key is the wishlist's id.
wishlist_items(its, wishlist_id) == {i \in DOMAIN its : its[i].wishlist_id = wishlist_id}

\* Wishlist.delete: session.delete(self), commit.  The relationship cascades the
\* delete to the wishlist's items.  The commit flushes what the session holds;
\* when an item is left under an id that is no wishlist the foreign key refuses
\* it: rollback, DataValidationError.
delete(row) ==
    LET flushed == FlushedItems(items, dirty)
        wl == Without(wishlists, {row.id})
        its == Without(flushed, wishlist_items(flushed, row.id))
    IN IF ForeignKeyViolation(its, wl)
       THEN [ok |-> FALSE, wl |-> rollback.wl, its |-> rollback.its, drt |-> rollback.drt]
       ELSE [ok |-> TRUE, wl |-> wl, its |-> its, drt |-> EmptyMap]

\* ------------------------------------------------------- WishlistItem
\* The attribute values of a loaded item as the session holds them.
ItemView(i) == IF i \in DOMAIN dirty THEN dirty[i] ELSE items[i]

\* WishlistItem.find: query.get(by_id) answers from the session's identity map.
item_find(by_id) == IF by_id \in DOMAIN items THEN {ItemView(by_id)} ELSE {}

\* WishlistItem.serialize
item_serialize(row) ==
    [id |-> row.id, wishlist_id |-> row.wishlist_id, product_id |-> row.product_id,
     product_name |-> row.product_name,
     product_description |-> row.product_description,
     product_price |-> row.product_price]

\* The keys WishlistItem.deserialize reads, in order.
ItemKeys == <<"wishlist_id", "product_id", "product_name",
              "product_description", "product_price">>

\* Assign data[ItemKeys[k]] for k = from, from+1, ... and stop at the first
\* missing key: the attributes assigned before it keep their new values.
RECURSIVE AssignItemKeys(_, _, _)
AssignItemKeys(self, data, from) ==
    IF from > Len(ItemKeys) THEN [ok |-> TRUE, rec |-> self, err |-> <<>>]
    ELSE IF ~HasKey(data, ItemKeys[from])
    THEN [ok |-> FALSE, rec |-> self,
          err |-> <<"Invalid wishlist item: missing ", ItemKeys[from]>>]
    ELSE AssignItemKeys(SetAttr(self, ItemKeys[from], data[ItemKeys[from]]),
                        data, from + 1)

\* WishlistItem.deserialize
item_deserialize(self, data) ==
    IF ~IsMapping(data)
    THEN [ok |-> FALSE, rec |-> self,
          err |-> <<"Invalid wishlist item: body of request contained bad or no data">>]
    ELSE AssignItemKeys(self, data, 1)

\* WishlistItem(): no attribute assigned
NewWishlistItem == EmptyMap

\* WishlistItem.update: commit the loaded item's attribute values with
\* everything else the session holds; a commit the foreign key refuses is
\* rolled back.
item_update(row) ==
    LET its == [FlushedItems(items, dirty) EXCEPT ![row.id] = row] IN
    IF ForeignKeyViolation(its, wishlists)
    THEN [ok |-> FALSE, its |-> rollback.its, drt |-> rollback.drt]
    ELSE [ok |-> TRUE, its |-> its, drt |-> EmptyMap]

\* WishlistItem.delete: session.delete(self), commit; a commit the foreign key
\* refuses is rolled back.
item_delete(row) ==
    LET its == Without(FlushedItems(items, dirty), {row.id}) IN
    IF ForeignKeyViolation(its, wishlists)
    THEN [ok |-> FALSE, its |-> rollback.its, drt |-> rollback.drt]
    ELSE [ok |-> TRUE, its |-> its, drt |-> EmptyMap]

\* The append with the foreign key left as deserialize assigned it.
append_item_keeping_parent(wishlist, rec) ==
    LET row == [id |-> next_iid, wishlist_id |-> rec.wishlist_id,
                product_id |-> rec.product_id, product_name |-> rec.product_name,
                product_description |-> rec.product_description,
                product_price |-> rec.product_price]
        flushed == FlushedItems(items, dirty)
        its == [i \in DOMAIN flushed \cup {next_iid} |->
                    IF i = next_iid THEN row ELSE flushed[i]]
    IN IF ForeignKeyViolation(its, wishlists)
       THEN [ok |-> FALSE, row |-> row, its |-> rollback.its, drt |-> rollback.drt,
             ni |-> next_iid]
       ELSE [ok |-> TRUE, row |-> row, its |-> its, drt |-> EmptyMap,
             ni |-> next_iid + 1]

\* wishlist.wishlist_items.append(item); wishlist.update(): the INSERT takes the
\* primary key from the sequence and the foreign key from the parent.  The
\* flush writes the pending values of loaded items before it inserts; when the
\* foreign key refuses them the commit is rolled back and no id is taken.
append_item(wishlist, rec) ==
    LET row == [id |-> next_iid, wishlist_id |-> wishlist.id,
                product_id |-> rec.product_id, product_name |-> rec.product_name,
                product_description |-> rec.product_description,
                product_price |-> rec.product_price]
        flushed == FlushedItems(items, dirty)
        its == [i \in DOMAIN flushed \cup {next_iid} |->
                    IF i = next_iid THEN row ELSE flushed[i]]
    IN IF ForeignKeyViolation(its, wishlists)
       THEN [ok |-> FALSE, row |-> row, its |-> rollback.its, drt |-> rollback.drt,
             ni |-> next_iid]
       ELSE [ok |-> TRUE, row |-> row, its |-> its, drt |-> EmptyMap,
             ni |-> next_iid + 1]

\* --------------------------------------------------- service/routes.py
\* check_content_type that lets a request without the header pass.
check_content_type_lenient(content_type, header) ==
    header = NULL \/ header = content_type

\* check_content_type: TRUE when the request passes, FALSE when it aborts with 415.
check_content_type(content_type, header) ==
    IF header = NULL THEN FALSE
    ELSE header = content_type

UnsupportedMediaType == abort(HTTP_415_UNSUPPORTED_MEDIA_TYPE, <<"Content-Type must be ", JSON>>)

\* GET /wishlists/<wishlist_id>
WishlistResource_get(wishlist_id) ==
    LET found == find(wishlist_id) IN
    IF found = {}
    THEN abort(HTTP_404_NOT_FOUND,
               <<"Wishlist with id '", ToString(wishlist_id), "' could not be found.">>)
    ELSE LET wishlist == CHOOSE w \in found : TRUE IN
         Respond(HTTP_200_OK, {serialize(wishlist)}, <<>>)

\* DELETE /wishlists/<wishlist_id>: 204 whether or not the wishlist is stored;
\* the DataValidationError of a refused delete is answered 400.
WishlistResource_delete(wishlist_id) ==
    LET found == find(wishlist_id) IN
    IF found # {}
    THEN LET d == delete(CHOOSE w \in found : TRUE) IN
         IF ~d.ok
         THEN Outcome(HTTP_400_BAD_REQUEST, {}, <<"DataValidationError">>, {},
                      d.wl, d.its, d.drt, next_wid, next_iid)
         ELSE Outcome(HTTP_204_NO_CONTENT, {}, <<>>, {},
                      d.wl, d.its, d.drt, next_wid, next_iid)
    ELSE Respond(HTTP_204_NO_CONTENT, {}, <<>>)

\* The conflict check of PUT /wishlists/<wishlist_id>:
\* Wishlist.query.filter_by(username=body["username"], name=body["name"]).first()
\* is not None.
put_conflict(wishlist_id, body) == filter_by(body.username, body.name) # {}

\* PUT /wishlists/<wishlist_id> that looks the wishlist up before it checks the
\* Content-Type.
WishlistResource_put_existence_first(wishlist_id, header, body) ==
    LET found == find(wishlist_id) IN
    IF found = {}
    THEN abort(HTTP_404_NOT_FOUND, <<"Wishlist with id '{wishlist_id}' was not found.">>)
    ELSE IF ~check_content_type(JSON, header) THEN UnsupportedMediaType
    ELSE IF ~IsMapping(body) THEN UnhandledException(<<"TypeError">>)
    ELSE IF ~HasKey(body, "username") THEN UnhandledException(<<"KeyError", "username">>)
    ELSE IF ~HasKey(body, "name") THEN UnhandledException(<<"KeyError", "name">>)
    ELSE IF put_conflict(wishlist_id, body)
    THEN abort(HTTP_409_CONFLICT, <<"Duplicate Wishlist">>)
    ELSE LET d == deserialize(CHOOSE w \in found : TRUE, body) IN
         IF ~d.ok THEN DataValidationErrorResponse(d.err)
         ELSE LET u == update(d.rec) IN
              IF ~u.ok
              THEN Outcome(HTTP_400_BAD_REQUEST, {}, <<"DataValidationError">>, {},
                           u.wl, u.its, u.drt, next_wid, next_iid)
              ELSE Outcome(HTTP_200_OK, {serialize(u.wl[wishlist_id])}, <<>>, {},
                           u.wl, u.its, u.drt, next_wid, next_iid)

\* PUT /wishlists/<wishlist_id>
WishlistResource_put(wishlist_id, header, body) ==
    IF ~check_content_type(JSON, header) THEN UnsupportedMediaType
    ELSE LET found == find(wishlist_id) IN
    IF found = {}
    THEN abort(HTTP_404_NOT_FOUND, <<"Wishlist with id '{wishlist_id}' was not found.">>)
    ELSE IF ~IsMapping(body) THEN UnhandledException(<<"TypeError">>)
    ELSE IF ~HasKey(body, "username") THEN UnhandledException(<<"KeyError", "username">>)
    ELSE IF ~HasKey(body, "name") THEN UnhandledException(<<"KeyError", "name">>)
    ELSE IF put_conflict(wishlist_id, body)
    THEN abort(HTTP_409_CONFLICT, <<"Duplicate Wishlist">>)
    ELSE LET d == deserialize(CHOOSE w \in found : TRUE, body) IN
         IF ~d.ok THEN DataValidationErrorResponse(d.err)
         ELSE LET u == update(d.rec) IN
              IF ~u.ok
              THEN Outcome(HTTP_400_BAD_REQUEST, {}, <<"DataValidationError">>, {},
                           u.wl, u.its, u.drt, next_wid, next_iid)
              ELSE Outcome(HTTP_200_OK, {serialize(u.wl[wishlist_id])}, <<>>, {},
                           u.wl, u.its, u.drt, next_wid, next_iid)

\* POST /wishlists without its conflict check.
post_conflict_skipped(data) == FALSE

\* x is not None, for an x that is a Query object or a list.
is_not_None(x) == TRUE

\* GET /wishlists?name=...&username=...: wishlist_args declares only name, so
\* any other query argument is dropped by parse_args.  find_by_name returns a
\* Query object, which is never None.  The order of the array is whatever the
\* SELECT yields; the body is the set of its elements.
WishlistCollection_get(name, username) ==
    IF name # NULL
    THEN LET found == find_by_name(name) IN
         IF is_not_None(found)
         THEN abort(HTTP_404_NOT_FOUND, <<"wishlist with '", name, "' doesn't exist.">>)
         ELSE Respond(HTTP_200_OK, {serialize(w) : w \in found}, <<>>)
    ELSE Respond(HTTP_200_OK, {serialize(w) : w \in all}, <<>>)

\* The conflict check of POST /wishlists.
post_conflict(data) == filter_by(data.username, data.name) # {}

\* POST /wishlists from wishlist.create() on: the insert and the response.
WishlistCollection_post_create(rec) ==
    LET c == create(rec) IN
    IF ~c.ok
    THEN Outcome(HTTP_400_BAD_REQUEST, {}, <<"DataValidationError">>, {},
                 c.wl, c.its, c.drt, c.nw, next_iid)
    ELSE Outcome(HTTP_201_CREATED, {serialize(c.wl[c.id])}, <<>>, {c.id},
                 c.wl, c.its, c.drt, c.nw, next_iid)

\* POST /wishlists
WishlistCollection_post(header, data) ==
    IF ~check_content_type(JSON, header) THEN UnsupportedMediaType
    ELSE LET d == deserialize(NewWishlist, data) IN
    IF ~d.ok THEN DataValidationErrorResponse(d.err)
    ELSE IF ~HasKey(data, "username") THEN UnhandledException(<<"KeyError", "username">>)
    ELSE IF post_conflict(data)
    THEN abort(HTTP_409_CONFLICT, <<"Duplicate Wishlist">>)
    ELSE WishlistCollection_post_create(d.rec)

\* POST /wishlists up to and including its conflict check: TRUE when the
\* request goes on to wishlist.create().
WishlistCollection_post_checked(header, data) ==
    /\ check_content_type(JSON, header)
    /\ deserialize(NewWishlist, data).ok
    /\ HasKey(data, "username")
    /\ ~post_conflict(data)

\* wishlist.is_public = value; wishlist.update(); return wishlist.serialize():
\* after the commit the object's attributes are read back from the row.
set_is_public(wishlist, value) ==
    LET row == [wishlist EXCEPT !.is_public = value]
        u == update(row)
    IN IF ~u.ok
       THEN Outcome(HTTP_400_BAD_REQUEST, {}, <<"DataValidationError">>, {},
                    u.wl, u.its, u.drt, next_wid, next_iid)
       ELSE Outcome(HTTP_200_OK, {serialize(u.wl[row.id])}, <<>>, {},
                    u.wl, u.its, u.drt, next_wid, next_iid)

\* PUT /wishlists/<wishlist_id>/publish
PublishResource_put(wishlist_id) ==
    LET found == find(wishlist_id) IN
    IF found = {} THEN abort(HTTP_404_NOT_FOUND, <<"Wishlist not found.">>)
    ELSE set_is_public(CHOOSE w \in found : TRUE, TRUE)

\* PUT /wishlists/<wishlist_id>/unpublish that answers 200 for an id that is not stored.
UnpublishResource_put_lenient(wishlist_id) ==
    LET found == find(wishlist_id) IN
    IF found = {} THEN Respond(HTTP_200_OK, {}, <<>>)
    ELSE set_is_public(CHOOSE w \in found : TRUE, FALSE)

\* PUT /wishlists/<wishlist_id>/unpublish
UnpublishResource_put(wishlist_id) ==
    LET found == find(wishlist_id) IN
    IF found = {} THEN abort(HTTP_404_NOT_FOUND, <<"Wishlist not found.">>)
    ELSE set_is_public(CHOOSE w \in found : TRUE, FALSE)

\* GET /wishlists/<wishlist_id>/items/<item_id>
ItemResource_get(wishlist_id, item_id) ==
    LET found == item_find(item_id) IN
    IF found = {}
    THEN abort(HTTP_404_NOT_FOUND,
               <<"Product with id '", ToString(item_id), "' was not found.">>)
    ELSE Respond(HTTP_200_OK, {item_serialize(CHOOSE p \in found : TRUE)}, <<>>)

\* The session after attribute values were assigned to a loaded item without a commit.
Pending(drt, rec) ==
    IF rec = items[rec.id] THEN Without(drt, {rec.id})
    ELSE [i \in DOMAIN drt \cup {rec.id} |-> IF i = rec.id THEN rec ELSE drt[i]]

\* PUT /wishlists/<wishlist_id>/items/<item_id>
ItemResource_put(wishlist_id, item_id, header, payload) ==
    IF ~check_content_type(JSON, header) THEN UnsupportedMediaType
    ELSE LET found == item_find(item_id) IN
    IF found = {}
    THEN abort(HTTP_404_NOT_FOUND,
               <<"Item with id '", ToString(item_id), "' was not found">>)
    ELSE LET product == CHOOSE p \in found : TRUE
             original_wishlist_id == product.wishlist_id
             d == item_deserialize(product, payload)
         IN IF ~d.ok
            THEN Outcome(HTTP_400_BAD_REQUEST, {}, d.err, {}, wishlists, items,
                         Pending(dirty, d.rec), next_wid, next_iid)
            ELSE LET row == [d.rec EXCEPT !.id = item_id,
                                          !.wishlist_id = original_wishlist_id]
                     u == item_update(row)
                 IN IF ~u.ok
                    THEN Outcome(HTTP_400_BAD_REQUEST, {}, <<"DataValidationError">>, {},
                                 wishlists, u.its, u.drt, next_wid, next_iid)
                    ELSE Outcome(HTTP_200_OK, {item_serialize(row)}, <<>>, {},
                                 wishlists, u.its, u.drt, next_wid, next_iid)

\* DELETE /wishlists/<wishlist_id>/items/<item_id>
ItemResource_delete(wishlist_id, item_id) ==
    LET found == item_find(item_id) IN
    IF found # {}
    THEN LET d == item_delete(CHOOSE p \in found : TRUE) IN
         IF ~d.ok
         THEN Outcome(HTTP_400_BAD_REQUEST, {}, <<"DataValidationError">>, {},
                      wishlists, d.its, d.drt, next_wid, next_iid)
         ELSE Outcome(HTTP_204_NO_CONTENT, {}, <<>>, {}, wishlists, d.its, d.drt,
                      next_wid, next_iid)
    ELSE Respond(HTTP_204_NO_CONTENT, {}, <<>>)

\* int(text): the number a decimal string denotes, nothing (ValueError) for
\* any other string of the alphabet.
int(text) == IF text = "42" THEN {42} ELSE {}

\* Python ==  between a str and an int: never equal.
str_eq_int(text, number) == FALSE

\* GET /wishlists/<wishlist_id>/items?product_name=...: the filter compares the
\* serialized product_name of each item with int(args["product_name"]), which
\* is evaluated once per item; the list it builds is never None.  The SELECTs
\* of Wishlist.find and of the lazy load of wishlist.wishlist_items autoflush
\* the session first, so the members and their values are the pending ones.
ItemCollection_get(wishlist_id, product_name) ==
    LET found == find(wishlist_id) IN
    IF found = {} THEN abort(HTTP_404_NOT_FOUND, <<"Wishlist not found.">>)
    ELSE LET session == FlushedItems(items, dirty)
             res == {item_serialize(session[i]) : i \in wishlist_items(session, wishlist_id)}
         IN
         IF product_name # NULL
         THEN IF res # {} /\ int(product_name) = {} THEN UnhandledException(<<"ValueError">>)
              ELSE LET filtered ==
                        {product \in res :
                            \E n \in int(product_name) : str_eq_int(product.product_name, n)}
                   IN IF is_not_None(filtered)
                      THEN abort(HTTP_404_NOT_FOUND,
                                 <<"Product with name '", product_name, "' cannot be found.">>)
                      ELSE Respond(HTTP_200_OK, filtered, <<>>)
         ELSE Respond(HTTP_200_OK, res, <<>>)

\* POST /wishlists/<wishlist_id>/items whose 404 message does not name the id.
ItemCollection_post_unnamed(wishlist_id, header, payload) ==
    IF ~check_content_type(JSON, header) THEN UnsupportedMediaType
    ELSE LET found == find(wishlist_id) IN
    IF found = {}
    THEN abort(HTTP_404_NOT_FOUND, <<"Wishlist not found.">>)
    ELSE LET d == item_deserialize(NewWishlistItem, payload) IN
         IF ~d.ok THEN DataValidationErrorResponse(d.err)
         ELSE LET a == append_item(CHOOSE w \in found : TRUE, d.rec) IN
              IF ~a.ok
              THEN Outcome(HTTP_400_BAD_REQUEST, {}, <<"DataValidationError">>, {},
                           wishlists, a.its, a.drt, next_wid, a.ni)
              ELSE Outcome(HTTP_201_CREATED, {item_serialize(a.row)}, <<>>, {a.row.id},
                           wishlists, a.its, a.drt, next_wid, a.ni)

\* POST /wishlists/<wishlist_id>/items
ItemCollection_post(wishlist_id, header, payload) ==
    IF ~check_content_type(JSON, header) THEN UnsupportedMediaType
    ELSE LET found == find(wishlist_id) IN
    IF found = {}
    THEN abort(HTTP_404_NOT_FOUND,
               <<"Wishlist with id '", ToString(wishlist_id), "' was not found.">>)
    ELSE LET d == item_deserialize(NewWishlistItem, payload) IN
         IF ~d.ok THEN DataValidationErrorResponse(d.err)
         ELSE LET a == append_item(CHOOSE w \in found : TRUE, d.rec) IN
              IF ~a.ok
              THEN Outcome(HTTP_400_BAD_REQUEST, {}, <<"DataValidationError">>, {},
                           wishlists, a.its, a.drt, next_wid, a.ni)
              ELSE Outcome(HTTP_201_CREATED, {item_serialize(a.row)}, <<>>, {a.row.id},
                           wishlists, a.its, a.drt, next_wid, a.ni)

\* ------------------------------------------------------ request bodies
FullItemBodies ==
    { [wishlist_id |-> w, product_id |-> 101, product_name |-> n,
       product_description |-> "pd", product_price |-> 10] :
        w \in WishlistIds, n \in ProductNames }

\* Bodies that lack the keys after product_name.
PartialItemBodies ==
    { [wishlist_id |-> w, product_id |-> 101, product_name |-> "p1"] :
        w \in WishlistIds }

ItemBodies == FullItemBodies \cup PartialItemBodies \cup {EmptyMap, NotMapping}

\* The requests that carry a body: every body under the JSON header, and a
\* well-formed body under every other header.
BodyRequests(bodies, wellFormed) ==
    { <<JSON, b>> : b \in bodies }
    \cup { <<h, wellFormed>> : h \in ContentTypes \ {JSON} }

AWishlistBody == [name |-> "n1", username |-> "u1", description |-> "d1", is_public |-> TRUE]

AnItemBody == [wishlist_id |-> 1, product_id |-> 101, product_name |-> "p1",
               product_description |-> "pd", product_price |-> 10]

\* ------------------------------------------------------------- actions
Init ==
    /\ wishlists = EmptyMap
    /\ items = EmptyMap
    /\ dirty = EmptyMap
    /\ next_wid = 1
    /\ next_iid = 1
    /\ now = 0
    /\ inflight = <<>>
    /\ direct = FALSE

\* The storage and the session a handler leaves when it returns.  Time passes
\* from one commit to the next.
Store(o) ==
    /\ o.nw <= MaxWishlists + 1
    /\ o.ni <= MaxItems + 1
    /\ wishlists' = o.wl
    /\ items' = o.its
    /\ dirty' = o.drt
    /\ next_wid' = o.nw
    /\ next_iid' = o.ni
    /\ now' = IF now < MaxTime THEN now + 1 ELSE now

\* One request served from start to finish.
Serve(o) == Store(o) /\ UNCHANGED <<inflight, direct>>

\* One call of a Wishlist method made outside a handler.
Call(o) == Store(o) /\ direct' = TRUE /\ UNCHANGED inflight

\* Wishlist(name=..., username=..., description=..., is_public=...).create(),
\* the persistence layer used directly.
ModelCreate ==
    \E n \in Names, u \in Users, d \in Descs, p \in BOOLEAN :
        LET c == create([name |-> n, username |-> u, description |-> d, is_public |-> p])
        IN Call(Outcome(0, {}, <<>>, {}, c.wl, c.its, c.drt, c.nw, next_iid))

\* Wishlist.create(), update() and delete() used directly while the commit raises.
ModelCreateFails ==
    \E rec \in {AWishlistBody} :
        LET c == create_commit_raises(rec)
        IN Call(Outcome(0, {}, <<"DataValidationError">>, {}, c.wl, c.its, c.drt,
                         c.nw, next_iid))

ModelUpdateFails ==
    \E id \in DOMAIN wishlists, n \in Names :
        LET u == update_commit_raises([wishlists[id] EXCEPT !.name = n])
        IN Call(Outcome(0, {}, <<"DataValidationError">>, {}, u.wl, u.its, u.drt,
                         next_wid, next_iid))

ModelDeleteFails ==
    \E id \in DOMAIN wishlists :
        LET d == delete_commit_raises(wishlists[id])
        IN Call(Outcome(0, {}, <<"DataValidationError">>, {}, d.wl, d.its, d.drt,
                         next_wid, next_iid))

PostWishlist ==
    \E r \in BodyRequests(WishlistBodies, AWishlistBody) :
        Serve(WishlistCollection_post(r[1], r[2]))

GetWishlist ==
    \E id \in PathWishlistIds : Serve(WishlistResource_get(id))

PutWishlist ==
    \E id \in PathWishlistIds, r \in BodyRequests(WishlistBodies, AWishlistBody) :
        Serve(WishlistResource_put(id, r[1], r[2]))

DeleteWishlist ==
    \E id \in PathWishlistIds : Serve(WishlistResource_delete(id))

Publish ==
    \E id \in PathWishlistIds : Serve(PublishResource_put(id))

Unpublish ==
    \E id \in PathWishlistIds : Serve(UnpublishResource_put(id))

PostItem ==
    \E id \in PathWishlistIds, r \in BodyRequests(ItemBodies, AnItemBody) :
        Serve(ItemCollection_post(id, r[1], r[2]))

GetItem ==
    \E id \in PathWishlistIds, iid \in PathItemIds : Serve(ItemResource_get(id, iid))

PutItem ==
    \E id \in PathWishlistIds, iid \in PathItemIds :
        \E r \in BodyRequests(ItemBodies, AnItemBody) :
            Serve(ItemResource_put(id, iid, r[1], r[2]))

DeleteItem ==
    \E id \in PathWishlistIds, iid \in PathItemIds : Serve(ItemResource_delete(id, iid))

ListWishlists ==
    \E n \in Names \cup {NULL}, u \in Users \cup {NULL} : Serve(WishlistCollection_get(n, u))

ListItems ==
    \E id \in PathWishlistIds, p \in ProductNames \cup {NULL} :
        Serve(ItemCollection_get(id, p))

\* Any HTTP request.
Http ==
    \/ PostWishlist
    \/ GetWishlist
    \/ PutWishlist
    \/ DeleteWishlist
    \/ Publish
    \/ Unpublish
    \/ PostItem
    \/ GetItem
    \/ PutItem
    \/ DeleteItem
    \/ ListWishlists
    \/ ListItems

Next == Http \/ ModelCreate \/ ModelCreateFails \/ ModelUpdateFails \/ ModelDeleteFails

Spec == Init /\ [][Next]_vars

\* Two workers serving POST /wishlists at the same time: a request runs its
\* conflict query, and its insert happens in a later step, so that another
\* request's query can fall between the two.
RaceBodies == { [name |-> n, username |-> u] : n \in Names, u \in Users }

PostWishlistChecks ==
    \E data \in RaceBodies :
        /\ Len(inflight) < MaxInflight
        /\ \A k \in DOMAIN inflight : inflight[k].status = 0
        /\ WishlistCollection_post_checked(JSON, data)
        /\ inflight' = Append(inflight, [data |-> data, status |-> 0])
        /\ UNCHANGED <<wishlists, items, dirty, next_wid, next_iid, now, direct>>

PostWishlistCreates ==
    \E k \in DOMAIN inflight :
        /\ inflight[k].status = 0
        /\ LET o == WishlistCollection_post_create(
                        deserialize(NewWishlist, inflight[k].data).rec)
           IN /\ Store(o)
              /\ inflight' = [inflight EXCEPT ![k].status = o.status]
              /\ UNCHANGED direct

PostWishlistsAnswered ==
    /\ inflight # <<>>
    /\ \A k \in DOMAIN inflight : inflight[k].status # 0
    /\ inflight' = <<>>
    /\ UNCHANGED <<wishlists, items, dirty, next_wid, next_iid, now, direct>>

RaceNext ==
    \/ ModelCreate
    \/ DeleteWishlist
    \/ PostWishlistChecks
    \/ PostWishlistCreates
    \/ PostWishlistsAnswered

RaceSpec == Init /\ [][RaceNext]_vars

\* ---------------------------------------------------------------- claims
\* The committed store is what the outcome o leaves it: no row written.
StoreUnchanged(o) ==
    /\ o.wl = wishlists
    /\ o.its = items
    /\ o.nw = next_wid
    /\ o.ni = next_iid

\* The message names the id.
Mentions(msg, id) == \E k \in DOMAIN msg : msg[k] = ToString(id)

\* C1: POST /wishlists with the JSON header and a valid body whose
\* (username, name) a stored wishlist already has is answered 409 and leaves
\* the stored wishlists as they were.
C1_DuplicatePostIsConflict ==
    \A data \in FullWishlistBodies :
        filter_by(data.username, data.name) # {} =>
            LET o == WishlistCollection_post(JSON, data) IN
                /\ o.status = HTTP_409_CONFLICT
                /\ StoreUnchanged(o)

C1_Witness ==
    \E data \in FullWishlistBodies :
        /\ filter_by(data.username, data.name) # {}
        /\ next_wid <= MaxWishlists
        /\ WishlistCollection_post(JSON, data).status = HTTP_409_CONFLICT

\* C2: while every stored wishlist was stored by an HTTP request, no two
\* stored wishlists have the same (username, name), whatever sequence of
\* requests was served from the empty store.
C2_PairsAreUnique ==
    ~direct =>
        \A i \in DOMAIN wishlists, j \in DOMAIN wishlists :
            (wishlists[i].username = wishlists[j].username
                /\ wishlists[i].name = wishlists[j].name) => i = j

C2_Witness ==
    /\ ~direct
    /\ next_wid > MaxWishlists
    /\ \A data \in FullWishlistBodies : ~post_conflict(data)

\* C3: POST /wishlists with a valid body that conflicts with nothing returns
\* 201, stores one new wishlist under a fresh id named by the Location, and
\* the stored wishlist has the body's name, username, description and is_public.
C3_PostCreatesTheWishlist ==
    \A data \in FullWishlistBodies :
        (filter_by(data.username, data.name) = {} /\ next_wid <= MaxWishlists) =>
            LET o == WishlistCollection_post(JSON, data) IN
                /\ o.status = HTTP_201_CREATED
                /\ \E id \in o.loc :
                    /\ id # 0
                    /\ id \notin DOMAIN wishlists
                    /\ DOMAIN o.wl = DOMAIN wishlists \cup {id}
                    /\ \A i \in DOMAIN wishlists : o.wl[i] = wishlists[i]
                    /\ o.wl[id].name = data.name
                    /\ o.wl[id].username = data.username
                    /\ o.wl[id].description = data.description
                    /\ o.wl[id].is_public = data.is_public

\* C4: PUT /wishlists/<id> is answered 409 only when a stored wishlist other
\* than <id> has the body's (username, name); a body that carries the
\* wishlist's own pair is answered 200.
C4_PutConflictsOnlyWithAnother ==
    \A id \in DOMAIN wishlists, body \in FullWishlistBodies :
        LET o == WishlistResource_put(id, JSON, body)
            others == {w \in filter_by(body.username, body.name) : w.id # id}
        IN /\ o.status = HTTP_409_CONFLICT => others # {}
           /\ (body.username = wishlists[id].username
                    /\ body.name = wishlists[id].name /\ others = {})
                => o.status = HTTP_200_OK

\* The items the wishlist owns.
OwnedItems(wishlist_id) == wishlist_items(items, wishlist_id)

\* C5: deleting a wishlist, by DELETE /wishlists/<id> or by Wishlist.delete,
\* removes exactly the items whose wishlist_id is <id>: none of them is stored
\* afterwards, the number of stored items drops by the number the wishlist
\* owned, and every item of another wishlist is still stored.
C5_DeleteCascadesToItems ==
    \A id \in DOMAIN wishlists :
        LET o == WishlistResource_delete(id)
            d == delete(wishlists[id])
        IN o.status = HTTP_204_NO_CONTENT =>
           /\ DOMAIN o.its = DOMAIN items \ OwnedItems(id)
           /\ Cardinality(DOMAIN o.its)
                = Cardinality(DOMAIN items) - Cardinality(OwnedItems(id))
           /\ \A i \in DOMAIN items \ OwnedItems(id) :
                i \in DOMAIN o.its /\ o.its[i].wishlist_id = items[i].wishlist_id
           /\ d.ok /\ d.its = o.its
           /\ id \notin DOMAIN o.wl

\* C6: DELETE /wishlists/<id> always returns 204.  A stored wishlist is removed
\* and a GET of it afterwards returns 404; for an id that is not stored the
\* store is unchanged; a second DELETE of the same id returns 204 again and
\* leaves the state the first one left.
C6_DeleteStep ==
    \A id \in PathWishlistIds :
        LET o == WishlistResource_delete(id) IN
        Serve(o) =>
            /\ o.status = HTTP_204_NO_CONTENT
            /\ id \notin DOMAIN wishlists'
            /\ id \notin DOMAIN wishlists => StoreUnchanged(o)
            /\ WishlistResource_get(id)'.status = HTTP_404_NOT_FOUND
            /\ WishlistResource_delete(id)'
                = Outcome(HTTP_204_NO_CONTENT, {}, <<>>, {},
                          wishlists', items', dirty', next_wid', next_iid')

C6_DeleteIsIdempotent == [][C6_DeleteStep]_vars

\* PUT /wishlists/<id>/publish when value is TRUE, .../unpublish when it is FALSE.
PublishAction(wishlist_id, value) ==
    IF value THEN PublishResource_put(wishlist_id) ELSE UnpublishResource_put(wishlist_id)

\* C7: publish (unpublish) of a stored wishlist returns 200 with is_public
\* true (false) and stores it, whatever the flag was; the same call made again,
\* at the same or a later time, returns the same body, timestamps included,
\* and leaves the stored state of the first call.
C7_PublishStep ==
    ( /\ dirty' = EmptyMap
      /\ next_wid' = next_wid
      /\ next_iid' = next_iid
      /\ DOMAIN wishlists' = DOMAIN wishlists
      /\ DOMAIN items' = DOMAIN items ) =>
    \A id \in DOMAIN wishlists, value \in BOOLEAN :
        LET o == PublishAction(id, value) IN
        Serve(o) =>
            /\ o.status = HTTP_200_OK
            /\ \A b \in o.body : b.is_public = value /\ b.id = id
            /\ o.body # {}
            /\ wishlists'[id].is_public = value
            /\ PublishAction(id, value)'
                = Outcome(HTTP_200_OK, o.body, <<>>, {},
                          wishlists', items', dirty', next_wid', next_iid')

C7_PublishIsIdempotent == [][C7_PublishStep]_vars

\* C8: publish and unpublish of an id that is not stored return 404 and
\* neither create nor change a wishlist.
C8_PublishAbsentIsNotFound ==
    \A id \in AnyWishlistId \ DOMAIN wishlists, value \in BOOLEAN :
        LET o == PublishAction(id, value) IN
            /\ o.status = HTTP_404_NOT_FOUND
            /\ StoreUnchanged(o)

C8_Witness ==
    \E id \in PathWishlistIds \ DOMAIN wishlists :
        /\ wishlists # EmptyMap
        /\ PublishResource_put(id).status = HTTP_404_NOT_FOUND
        /\ UnpublishResource_put(id).status = HTTP_404_NOT_FOUND

\* C9: GET and PUT of /wishlists/<id> for an id that is not stored fail with
\* 404 and a message that includes the id; the PUT stores nothing.
C9_AbsentIdIsNotFoundWithId ==
    \A id \in AnyWishlistId \ DOMAIN wishlists :
        /\ WishlistResource_get(id).status = HTTP_404_NOT_FOUND
        /\ Mentions(WishlistResource_get(id).msg, id)
        /\ \A body \in WishlistBodies :
            LET o == WishlistResource_put(id, JSON, body) IN
                /\ o.status = HTTP_404_NOT_FOUND
                /\ Mentions(o.msg, id)
                /\ StoreUnchanged(o)

\* C10: a request that carries a body and whose Content-Type header is missing
\* or is not exactly application/json is answered 415 whatever the body is,
\* before the body is read, and the store and the session are unchanged.
C10_ContentTypeComesFirst ==
    \A h \in ContentTypes \ {JSON}, id \in AnyWishlistId, iid \in AnyItemId :
        /\ \A data \in WishlistBodies :
            /\ WishlistCollection_post(h, data) = UnsupportedMediaType
            /\ WishlistResource_put(id, h, data) = UnsupportedMediaType
        /\ \A payload \in ItemBodies :
            /\ ItemCollection_post(id, h, payload) = UnsupportedMediaType
            /\ ItemResource_put(id, iid, h, payload) = UnsupportedMediaType
        /\ UnsupportedMediaType.status = HTTP_415_UNSUPPORTED_MEDIA_TYPE
        /\ StoreUnchanged(UnsupportedMediaType)
        /\ UnsupportedMediaType.drt = dirty

C10_Witness ==
    \E id \in DOMAIN wishlists, iid \in DOMAIN items :
        /\ WishlistCollection_post(NULL, AWishlistBody).status = HTTP_415_UNSUPPORTED_MEDIA_TYPE
        /\ WishlistResource_put(id, "test/html", AWishlistBody).status
                = HTTP_415_UNSUPPORTED_MEDIA_TYPE
        /\ ItemCollection_post(id, "application/json; charset=utf-8", AnItemBody).status
                = HTTP_415_UNSUPPORTED_MEDIA_TYPE
        /\ ItemResource_put(id, iid, NULL, AnItemBody).status = HTTP_415_UNSUPPORTED_MEDIA_TYPE
        /\ ItemResource_put(id, iid, JSON, AnItemBody).status = HTTP_200_OK

\* C11: POST /wishlists with the JSON header and a body that lacks name or
\* username is answered 400 and stores nothing.
C11_MissingFieldIsBadRequest ==
    \A data \in WishlistBodies :
        (IsMapping(data) /\ ~(HasKey(data, "name") /\ HasKey(data, "username"))) =>
            LET o == WishlistCollection_post(JSON, data) IN
                /\ o.status = HTTP_400_BAD_REQUEST
                /\ StoreUnchanged(o)

\* C12: POST /wishlists/<wid>/items with a valid body, for a <wid> that is not
\* stored, is answered 404 with a message that names <wid>, and creates no item.
C12_PostItemToAbsentWishlist ==
    \A wid \in AnyWishlistId \ DOMAIN wishlists, payload \in FullItemBodies :
        LET o == ItemCollection_post(wid, JSON, payload) IN
            /\ o.status = HTTP_404_NOT_FOUND
            /\ Mentions(o.msg, wid)
            /\ StoreUnchanged(o)

C12_Witness ==
    \E wid \in PathWishlistIds \ DOMAIN wishlists :
        /\ wishlists # EmptyMap
        /\ next_iid <= MaxItems
        /\ ItemCollection_post(wid, JSON, AnItemBody).status = HTTP_404_NOT_FOUND
        /\ Mentions(ItemCollection_post(wid, JSON, AnItemBody).msg, wid)

\* The body of GET /wishlists/<wid>/items without a filter.
ItemList(wid) == ItemCollection_get(wid, NULL).body

\* C13: a successful POST /wishlists/<wid>/items returns 201 and stores one new
\* item whose wishlist_id is <wid>, whatever wishlist_id the body carries; the
\* item is then in GET /wishlists/<wid>/items, which has grown by one, and in
\* the item list of no other wishlist.  Only the creation of an item advances
\* the item sequence.
C13_PostItemStep ==
    next_iid' # next_iid =>
    \A wid \in DOMAIN wishlists, payload \in FullItemBodies :
        LET o == ItemCollection_post(wid, JSON, payload) IN
        Serve(o) =>
            /\ o.status = HTTP_201_CREATED
            /\ \E id \in o.loc :
                /\ id \notin DOMAIN items
                /\ DOMAIN items' = DOMAIN items \cup {id}
                /\ items'[id].wishlist_id = wid
                /\ o.body = {item_serialize(items'[id])}
                /\ item_serialize(items'[id]) \in ItemList(wid)'
                /\ Cardinality(ItemList(wid)') = Cardinality(ItemList(wid)) + 1
                /\ \A other \in DOMAIN wishlists' \ {wid} :
                    \A b \in ItemList(other)' : b.id # id

C13_PostItemLandsInItsWishlist == [][C13_PostItemStep]_vars

C13_Witness ==
    \E wid \in DOMAIN wishlists, other \in DOMAIN wishlists, i \in DOMAIN items :
        /\ other # wid
        /\ items[i].wishlist_id = wid
        /\ item_serialize(ItemView(i)) \in ItemList(wid)
        /\ \A b \in ItemList(other) : b.id # i
        /\ next_iid <= MaxItems
        /\ \E payload \in FullItemBodies :
            /\ payload.wishlist_id = other
            /\ ItemCollection_post(wid, JSON, payload).status = HTTP_201_CREATED
            /\ ItemCollection_post(wid, JSON, payload).its[next_iid].wishlist_id = wid

\* C14: GET /wishlists/<wid>/items/<iid> returns 404 when item <iid> is
\* stored with a wishlist_id other than <wid>, and returns 200 with the item
\* only when the item's wishlist_id is <wid>.
C14_GetItemChecksParent ==
    \A wid \in AnyWishlistId, iid \in DOMAIN items :
        LET o == ItemResource_get(wid, iid) IN
            /\ items[iid].wishlist_id # wid => o.status = HTTP_404_NOT_FOUND
            /\ o.status = HTTP_200_OK => items[iid].wishlist_id = wid

\* C15: PUT /wishlists/<wid>/items/<iid> with a valid body returns 404 when
\* item <iid> is not stored or is stored with a wishlist_id other than <wid>,
\* and then the stored items are unchanged.
C15_PutItemChecksParent ==
    \A wid \in AnyWishlistId, iid \in AnyItemId, payload \in FullItemBodies :
        (iid \notin DOMAIN items \/ items[iid].wishlist_id # wid) =>
            LET o == ItemResource_put(wid, iid, JSON, payload) IN
                /\ o.status = HTTP_404_NOT_FOUND
                /\ o.its = items

\* Valid item bodies, with and without an id of their own.
ItemBodiesWithId ==
    FullItemBodies \cup {SetAttr(b, "id", k) : b \in FullItemBodies, k \in AnyItemId}

\* C16: a successful PUT /wishlists/<wid>/items/<iid> stores the body's product
\* fields and nothing else: the item keeps id <iid> and the wishlist_id it had,
\* whatever id or wishlist_id the body carries, and no item is added or removed.
C16_PutItemKeepsIdentity ==
    \A wid \in AnyWishlistId, iid \in DOMAIN items, payload \in ItemBodiesWithId :
        LET o == ItemResource_put(wid, iid, JSON, payload) IN
        o.status = HTTP_200_OK =>
            /\ DOMAIN o.its = DOMAIN items
            /\ o.its[iid] = [id |-> iid,
                              wishlist_id |-> items[iid].wishlist_id,
                              product_id |-> payload.product_id,
                              product_name |-> payload.product_name,
                              product_description |-> payload.product_description,
                              product_price |-> payload.product_price]
            /\ o.body = {item_serialize(o.its[iid])}
            /\ \A j \in DOMAIN items \ {iid} : o.its[j].wishlist_id = items[j].wishlist_id
            /\ o.wl = wishlists

\* Wishlist bodies as a client sends them back after a GET: with an id and a
\* created_at of their own.
EchoedWishlistBodies ==
    { [name |-> b.name, username |-> b.username, description |-> b.description,
       is_public |-> b.is_public, id |-> i, created_at |-> t, last_updated_at |-> t] :
        b \in FullWishlistBodies, i \in AnyWishlistId, t \in 0..MaxTime }

\* C17: a successful PUT /wishlists/<id> returns 200 with the body's name
\* stored in the wishlist, and leaves the wishlist's id and created_at as they
\* were, whatever id and created_at the body carries.
C17_PutAppliesNameKeepsIdentity ==
    \A id \in DOMAIN wishlists, body \in EchoedWishlistBodies :
        LET o == WishlistResource_put(id, JSON, body) IN
        o.status = HTTP_200_OK =>
            /\ DOMAIN o.wl = DOMAIN wishlists
            /\ o.wl[id].name = body.name
            /\ o.wl[id].id = id
            /\ o.wl[id].created_at = wishlists[id].created_at
            /\ o.body = {serialize(o.wl[id])}
            /\ \A j \in DOMAIN wishlists \ {id} : o.wl[j] = wishlists[j]

C17_Witness ==
    \E id \in DOMAIN wishlists, body \in EchoedWishlistBodies :
        /\ body.id # id
        /\ body.created_at # wishlists[id].created_at
        /\ body.name # wishlists[id].name
        /\ WishlistResource_put(id, JSON, body).status = HTTP_200_OK
        /\ WishlistResource_put(id, JSON, body).wl[id].name = body.name

\* C18: GET /wishlists?name=n returns 200 with exactly the stored wishlists
\* whose name is n when there is one, and 404 when there is none.
C18_ListByName ==
    \A n \in Names :
        LET o == WishlistCollection_get(n, NULL) IN
        IF find_by_name(n) # {}
        THEN o.status = HTTP_200_OK /\ o.body = {serialize(w) : w \in find_by_name(n)}
        ELSE o.status = HTTP_404_NOT_FOUND

\* C19: GET /wishlists?username=u, when a wishlist of u is stored, returns 200
\* with all the wishlists whose username is u and no wishlist of another user.
C19_ListByUsername ==
    \A u \in Users :
        find_for_user(u) # {} =>
            LET o == WishlistCollection_get(NULL, u) IN
                /\ o.status = HTTP_200_OK
                /\ o.body = {serialize(w) : w \in find_for_user(u)}

\* C20: GET /wishlists/<id>/items?product_name=p on a stored wishlist returns
\* 200 with exactly the items of wishlist <id> whose product_name is p when
\* there is one; it returns 404 when the wishlist is not stored or no item
\* matches; without the filter it returns exactly the items of wishlist <id>.
C20_ListItemsByProductName ==
    \A id \in AnyWishlistId, p \in ProductNames \cup {NULL} :
        LET o == ItemCollection_get(id, p)
            mine == {item_serialize(ItemView(i)) : i \in OwnedItems(id)}
            matching == {b \in mine : b.product_name = p}
        IN IF id \notin DOMAIN wishlists THEN o.status = HTTP_404_NOT_FOUND
           ELSE IF p = NULL THEN o.status = HTTP_200_OK /\ o.body = mine
           ELSE IF matching = {} THEN o.status = HTTP_404_NOT_FOUND
           ELSE o.status = HTTP_200_OK /\ o.body = matching

\* C21: DELETE /wishlists/<wid>/items/<iid> returns 204 whether or not the item
\* is stored; an item stored in wishlist <wid> is removed, so that the stored
\* items are one fewer and a GET of it returns 404; every other item and every
\* wishlist stays stored and unchanged.
C21_DeleteItemStep ==
    \A wid \in PathWishlistIds, iid \in PathItemIds :
        LET o == ItemResource_delete(wid, iid) IN
        Serve(o) =>
            /\ o.status = HTTP_204_NO_CONTENT
            /\ wishlists' = wishlists
            /\ (iid \in DOMAIN items /\ items[iid].wishlist_id = wid) =>
                /\ DOMAIN items' = DOMAIN items \ {iid}
                /\ Cardinality(DOMAIN items') = Cardinality(DOMAIN items) - 1
                /\ ItemResource_get(wid, iid)'.status = HTTP_404_NOT_FOUND
            /\ \A j \in DOMAIN items \ {iid} :
                j \in DOMAIN items' /\ items'[j] = items[j]

C21_DeleteItemFrame == [][C21_DeleteItemStep]_vars

\* Records on which create() fails: name or username was never assigned.
IncompleteWishlists ==
    { [name |-> n] : n \in Names } \cup { [username |-> u] : u \in Users } \cup {NewWishlist}

\* The outcome c of a create, update or delete is a failure that changed no row
\* and left nothing pending in the session.
FailedAndRolledBack(c) ==
    /\ ~c.ok
    /\ c.wl = wishlists
    /\ c.its = items
    /\ c.drt = EmptyMap

\* Every create, update or delete whose commit the database refuses (a NOT NULL
\* column left unset, a pending wishlist_id that names no wishlist) fails rolled
\* back, the handler that made it answers 400 with the DataValidationError, and
\* a refused insert has used up its id.
C22_RefusedCommits ==
    /\ \A rec \in IncompleteWishlists \cup FullWishlistBodies :
        LET c == create(rec) IN
        (rec \in IncompleteWishlists \/ ~c.ok) =>
            /\ FailedAndRolledBack(c)
            /\ c.nw = next_wid + 1
    /\ \A data \in WishlistBodies :
        WishlistCollection_post_checked(JSON, data) =>
            LET o == WishlistCollection_post(JSON, data) IN
                /\ o.status = HTTP_400_BAD_REQUEST
                /\ o.msg = <<"DataValidationError">>
                /\ o.nw = next_wid + 1
    /\ \A id \in DOMAIN wishlists :
        /\ FailedAndRolledBack(update([wishlists[id] EXCEPT !.name = NULL]))
        /\ FailedAndRolledBack(update([wishlists[id] EXCEPT !.username = NULL]))
        /\ \A body \in NullNameBodies :
            ~put_conflict(id, body) =>
                WishlistResource_put(id, JSON, body).status = HTTP_400_BAD_REQUEST
    /\ \A id \in DOMAIN wishlists, value \in BOOLEAN :
        LET u == update([wishlists[id] EXCEPT !.is_public = value])
            o == PublishAction(id, value)
        IN ~u.ok =>
            /\ FailedAndRolledBack(u)
            /\ o.status = HTTP_400_BAD_REQUEST
            /\ o.msg = <<"DataValidationError">>
    /\ \A id \in DOMAIN wishlists :
        LET d == delete(wishlists[id])
            o == WishlistResource_delete(id)
        IN ~d.ok =>
            /\ FailedAndRolledBack(d)
            /\ o.status = HTTP_400_BAD_REQUEST
            /\ o.msg = <<"DataValidationError">>

\* A step that is a refused create, update or delete, made by a handler or
\* directly, is followed by a state in which nothing of it is visible: the item
\* lists read afterwards are those of the stored rows, and the next commit
\* succeeds and writes no item.
C22_RefusedCommitStep ==
    ( /\ wishlists' = wishlists /\ items' = items /\ next_iid' = next_iid
      /\ \/ /\ next_wid' = next_wid + 1
            /\ \/ \E data \in WishlistBodies :
                    /\ WishlistCollection_post_checked(JSON, data)
                    /\ Serve(WishlistCollection_post(JSON, data))
               \/ \E rec \in IncompleteWishlists \cup FullWishlistBodies :
                    LET c == create(rec) IN
                    /\ ~c.ok
                    /\ Call(Outcome(0, {}, <<>>, {}, c.wl, c.its, c.drt, c.nw, next_iid))
         \/ \E id \in DOMAIN wishlists, value \in BOOLEAN :
                /\ ~update([wishlists[id] EXCEPT !.is_public = value]).ok
                /\ Serve(PublishAction(id, value))
         \/ \E id \in DOMAIN wishlists :
                /\ ~delete(wishlists[id]).ok
                /\ Serve(WishlistResource_delete(id)) )
    => \A w \in DOMAIN wishlists :
        /\ ItemCollection_get(w, NULL)'.body
                = { item_serialize(items[i]) : i \in OwnedItems(w) }
        /\ PublishResource_put(w)'.status = HTTP_200_OK
        /\ PublishResource_put(w)'.its = items

\* C22: when the commit inside Wishlist.create, update or delete fails, the
\* session is rolled back, DataValidationError is raised, and the stored rows
\* are what they were: nothing of the failed insert, update or delete, and no
\* pending change of the session, is visible to a later read or written by a
\* later commit.  The id a refused insert took from the sequence stays used.
C22_FailedCommitRollsBack == []C22_RefusedCommits /\ [][C22_RefusedCommitStep]_vars

C22_Witness ==
    /\ \E i \in DOMAIN dirty : dirty[i] # items[i]
    /\ ~create([name |-> "n1", username |-> "u1", description |-> "d1",
                is_public |-> FALSE]).ok
    /\ \E id \in DOMAIN wishlists :
        /\ ~update([wishlists[id] EXCEPT !.is_public = TRUE]).ok
        /\ ~delete(wishlists[id]).ok

\* C23: for every wishlist w, Wishlist().deserialize(w.serialize()) equals w
\* on name, username, description and is_public.
C23_SerializeDeserializeRoundTrip ==
    \A w \in all :
        LET d == deserialize(NewWishlist, serialize(w)) IN
            /\ d.ok
            /\ Attr(d.rec, "name", NULL) = w.name
            /\ Attr(d.rec, "username", NULL) = w.username
            /\ Attr(d.rec, "description", NULL) = w.description
            /\ Attr(d.rec, "is_public", NULL) = w.is_public

\* C24: when two POST /wishlists requests carrying the same (name, username)
\* both run their uniqueness check before either inserts, both are answered
\* 201 and the store then holds two wishlists with that pair.
C24_RacingPostsBothCreated ==
    ( /\ Len(inflight) = 2
      /\ inflight[1].data = inflight[2].data
      /\ inflight[1].status # 0
      /\ inflight[2].status # 0 )
    => /\ inflight[1].status = HTTP_201_CREATED
       /\ inflight[2].status = HTTP_201_CREATED
       /\ Cardinality({ id \in DOMAIN wishlists :
                /\ wishlists[id].name = inflight[1].data.name
                /\ wishlists[id].username = inflight[1].data.username }) = 2

\* C25: last_updated_at is set when the wishlist is created and is never
\* earlier than created_at; a successful update (publish, unpublish, PUT) at a
\* time later than the stored last_updated_at leaves last_updated_at equal to
\* the time of the update, hence strictly greater than it was.
C25_LastUpdatedFollowsUpdates ==
    /\ \A id \in DOMAIN wishlists :
        wishlists[id].last_updated_at >= wishlists[id].created_at
    /\ \A id \in DOMAIN wishlists, value \in BOOLEAN :
        LET o == PublishAction(id, value) IN
        (o.status = HTTP_200_OK /\ now > wishlists[id].last_updated_at) =>
            /\ o.wl[id].last_updated_at = now
            /\ o.wl[id].last_updated_at > wishlists[id].last_updated_at
            /\ o.wl[id].last_updated_at >= o.wl[id].created_at
    /\ \A id \in DOMAIN wishlists, body \in EchoedWishlistBodies :
        LET o == WishlistResource_put(id, JSON, body) IN
        (o.status = HTTP_200_OK /\ now > wishlists[id].last_updated_at) =>
            /\ o.wl[id].last_updated_at = now
            /\ o.wl[id].last_updated_at > wishlists[id].last_updated_at
            /\ o.wl[id].last_updated_at >= o.wl[id].created_at

\* C27: DELETE /wishlists/<wid>/items/<iid> for an item stored under another
\* wishlist does not delete it: the item stays stored, unchanged, under its
\* real parent, and the stored items are as many as before.
C27_DeleteItemChecksParent ==
    \A wid \in PathWishlistIds, iid \in DOMAIN items :
        items[iid].wishlist_id # wid =>
            LET o == ItemResource_delete(wid, iid) IN
                /\ iid \in DOMAIN o.its
                /\ o.its[iid] = items[iid]
                /\ DOMAIN o.its = DOMAIN items

C28_NoOrphanItems ==
    \A i \in DOMAIN items :
        /\ items[i].wishlist_id \in DOMAIN wishlists
        /\ Cardinality({ w \in DOMAIN wishlists : i \in OwnedItems(w) }) = 1

C28_Witness ==
    \E i \in DOMAIN dirty, w \in DOMAIN wishlists :
        /\ dirty[i].wishlist_id \notin DOMAIN wishlists
        /\ items[i].wishlist_id = w
        /\ PublishResource_put(w).status = HTTP_400_BAD_REQUEST
        /\ ItemResource_delete(w, i).status = HTTP_204_NO_CONTENT

\* C29: a PUT /wishlists/<id> or PUT /wishlists/<wid>/items/<iid> answered 400
\* or 409 leaves the stored rows as they were, and so does the commit of the
\* next request: a publish that follows it writes none of the values the
\* failed request had assigned to the loaded record.
C29_FailedPutStep ==
    /\ \A id \in DOMAIN wishlists, body \in WishlistBodies :
        LET o == WishlistResource_put(id, JSON, body) IN
        (o.status \in {HTTP_400_BAD_REQUEST, HTTP_409_CONFLICT} /\ Serve(o)) =>
            /\ wishlists' = wishlists
            /\ \A j \in DOMAIN wishlists :
                LET later == PublishResource_put(j)' IN
                    /\ later.wl[id].name = wishlists[id].name
                    /\ later.wl[id].username = wishlists[id].username
    /\ \A wid \in PathWishlistIds, iid \in DOMAIN items :
        \A payload \in ItemBodies :
            LET o == ItemResource_put(wid, iid, JSON, payload) IN
            (o.status \in {HTTP_400_BAD_REQUEST, HTTP_409_CONFLICT} /\ Serve(o)) =>
                /\ items' = items
                /\ \A j \in DOMAIN wishlists : PublishResource_put(j)'.its = items

C29_FailedPutWritesNothing == [][C29_FailedPutStep]_vars

\* C30: a successful publish or unpublish of wishlist <id> changes is_public
\* of that wishlist and nothing else: its id, name, username, description,
\* created_at and set of items, every other wishlist and every item are
\* stored afterwards as they were before.
C30_PublishChangesOnlyTheFlag ==
    \A id \in DOMAIN wishlists, value \in BOOLEAN :
        LET o == PublishAction(id, value) IN
        o.status = HTTP_200_OK =>
            /\ DOMAIN o.wl = DOMAIN wishlists
            /\ o.wl[id].is_public = value
            /\ o.wl[id].id = wishlists[id].id
            /\ o.wl[id].name = wishlists[id].name
            /\ o.wl[id].username = wishlists[id].username
            /\ o.wl[id].description = wishlists[id].description
            /\ o.wl[id].created_at = wishlists[id].created_at
            /\ wishlist_items(o.its, id) = OwnedItems(id)
            /\ \A j \in DOMAIN wishlists \ {id} : o.wl[j] = wishlists[j]
            /\ o.its = items

====
